---- MODULE Spec2Model ----
(***************************************************************************)
(* The dispatch queue of server/services/orchestrator.ts                   *)
(* (class OrchestratorQueue) as a state machine.                           *)
(*                                                                         *)
(* JavaScript runs one synchronous segment at a time, so every action is   *)
(* one such segment: the code from the resumption of a handler (an enqueue *)
(* call, a timer callback, the settlement of an awaited promise) up to the *)
(* next await.  A store, cost-governor or executor call is issued at the   *)
(* end of a segment and its effect on the collaborator is applied in the   *)
(* segment that resumes from it; a call that throws has no effect.         *)
(***************************************************************************)
EXTENDS Integers, Sequences, FiniteSets, TLC

\* private concurrency = 2
concurrency == 2

\* Bounds of the model: how many enqueue calls are made, and how many calls of
\* the store or the cost governor throw.
MaxTasks == 3
MaxFaults == 1

\* The store's content when the queue starts: two Runs (created by the routes
\* before they enqueue), the organization of the first of them, and no record
\* for the third run id.
RunWithOrg == "run-A"
RunWithoutOrg == "run-B"
MissingRun == "run-missing"
ExistingRuns == {RunWithOrg, RunWithoutOrg}
RunIds == ExistingRuns \cup {MissingRun}

VARIABLES
    queue,         \* private queue: AgentTask[]   (the backlog; task numbers)
    processing,    \* private processing = false
    activeCount,   \* private activeCount = 0
    timers,        \* pending setTimeout(() => this.processQueue(), 100) callbacks
    tasks,         \* every AgentTask enqueued so far, in enqueue order, with the
                   \* position of its executeTask/processQueue coroutine (pc),
                   \* the response and the error it holds, the calls it has
                   \* issued, and whether its "completed" update was acknowledged
    admitted,      \* task numbers in the order queue.shift() returned them
    runs,          \* store: agent_runs rows (status, outputJson, costEstimate)
    messages,      \* store: messages rows
    usageRecords,  \* store: usage_records rows
    auditLogs,     \* store: audit_log rows
    costTracked,   \* cost governor: the trackCost(orgId, cost) calls received
    log,           \* the "log" event stream, per run id
    rejected,      \* task numbers whose processQueue promise rejected
    faults,        \* how many collaborator calls have thrown so far
    crashed,       \* the process was terminated by an unhandled rejection
    inListener,    \* emit has called a listener of "log" that has not returned
    executor,      \* retryService.callWithRetry: the state of one invocation
    middleware     \* scbeApiMiddleware: the state of one request

vars == <<queue, processing, activeCount, timers, tasks, admitted, runs, messages,
          usageRecords, auditLogs, costTracked, log, rejected, faults, crashed,
          inListener, executor, middleware>>

queueVars == <<queue, processing, activeCount, timers, admitted>>
storeVars == <<runs, messages, usageRecords, auditLogs, costTracked>>

\* What a step of the dispatch queue leaves alone when every log listener
\* returns: the listener call, the inside of the retry service, and the
\* security middleware of the HTTP routes.
outsideVars == <<inListener, executor, middleware>>

----------------------------------------------------------------------------
\* Values

NoOutput == [kind |-> "none"]
Undefined == "undefined"

\* The provider a Run was created with, and the provider the retry service
\* falls back to.
PrimaryProvider == "openai"
FallbackProvider == "anthropic"

\* What retryService.callWithRetry resolves to.  usage.costEstimate is a decimal
\* string, or absent.
CostStrings == {Undefined, "0.000000", "0.015000"}

ExecOutcomes ==
    [success : {TRUE}, content : {"answer"}, cost : CostStrings,
     usedProvider : {PrimaryProvider}, attempts : {1}, error : {Undefined}]
    \cup
    [success : {TRUE}, content : {"answer"}, cost : {"0.015000"},
     usedProvider : {FallbackProvider}, attempts : {4}, error : {Undefined}]
    \cup
    [success : {FALSE}, content : {Undefined}, cost : {Undefined},
     usedProvider : {Undefined}, attempts : {6},
     error : {Undefined, "All providers failed"}]

NoResponse == [success |-> FALSE, content |-> Undefined, cost |-> Undefined,
               usedProvider |-> Undefined, attempts |-> 0, error |-> Undefined]

\* const costEstimate = response.usage?.costEstimate || "0"
CostEstimate(resp) == IF resp.cost = Undefined THEN "0" ELSE resp.cost

\* parseFloat(costEstimate), in millionths
ParseFloat(s) ==
    CASE s = "0" -> 0
      [] s = "0.000000" -> 0
      [] s = "0.015000" -> 15000

\* >= in the place of >
CostIsNotNegative(s) == ParseFloat(s) >= 0

\* parseFloat(costEstimate) > 0
CostIsPositive(s) == ParseFloat(s) > 0

\* The messages of the exceptions the collaborators throw.
StoreError == "store unavailable"
CostError == "budget exceeded"

\* A task's orgId: the organization that owns its Run.
OrgOf(r) == <<"org", r>>

\* store: organizations rows
orgs == {OrgOf(RunWithOrg)}

\* org.ownerUserId
OwnerOf(org) == <<"owner", org>>

\* The retry service when no invocation of callWithRetry has started: the
\* provider it calls, the calls made to that provider, the provider calls made
\* in all with their results, the onProgress invocations, and the outcome.
ExecutorIdle ==
    [pc |-> "idle", primary |-> Undefined, provider |-> Undefined, tries |-> 0,
     calls |-> <<>>, progress |-> <<>>, outcome |-> NoResponse]

\* scbeApiMiddleware before a request: the request's method and path, the
\* minTier the factory was called with (1 by default), how the API call went,
\* the evaluation's response, the status of the HTTP response sent (0: none),
\* the calls of next(), what req.scbe holds, the calls of activatePhysicsTrap,
\* and whether the middleware's catch block was entered.
MiddlewareIdle ==
    [pc |-> "idle", method |-> Undefined, path |-> Undefined, minTier |-> 1,
     api |-> "none",
     result |-> [json |-> "none", decision |-> Undefined,
                 trap_activated |-> FALSE, reason |-> Undefined],
     status |-> 0, nextCalls |-> 0, scbe |-> Undefined, traps |-> 0,
     error |-> FALSE]

----------------------------------------------------------------------------
\* Helpers on the state

Event(type, message) == [type |-> type, message |-> message]

Emit(lg, r, type, message) == [lg EXCEPT ![r] = Append(@, Event(type, message))]

Call(op, arg) == [op |-> op, arg |-> arg]

\* A store write updateAgentRun(id, fields): no row with that id, no change.
UpdateAgentRun(rs, r, fields) ==
    IF r \in DOMAIN rs
    THEN [rs EXCEPT ![r] = [status |-> fields.status,
                            output |-> IF "output" \in DOMAIN fields
                                       THEN fields.output ELSE @.output,
                            costEstimate |-> IF "costEstimate" \in DOMAIN fields
                                             THEN fields.costEstimate
                                             ELSE @.costEstimate]]
    ELSE rs

Init ==
    /\ queue = <<>>
    /\ processing = FALSE
    /\ activeCount = 0
    /\ timers = 0
    /\ tasks = <<>>
    /\ admitted = <<>>
    /\ runs = [r \in ExistingRuns |->
                 [status |-> "queued", output |-> NoOutput, costEstimate |-> "0"]]
    /\ messages = <<>>
    /\ usageRecords = <<>>
    /\ auditLogs = <<>>
    /\ costTracked = <<>>
    /\ log = [r \in RunIds |-> <<>>]
    /\ rejected = {}
    /\ faults = 0
    /\ crashed = FALSE
    /\ inListener = FALSE
    /\ executor = ExecutorIdle
    /\ middleware = MiddlewareIdle

----------------------------------------------------------------------------
\* processQueue, up to its first await

\* The guard with the processing flag lost and the comparison off by one.
BlockedOffByOne == activeCount > concurrency

\* The guard without the processing flag: admission limited by the slots only.
BlockedBySlotsOnly == activeCount >= concurrency

\* if (this.processing || this.activeCount >= this.concurrency) return;
Blocked == processing \/ activeCount >= concurrency

\* The head is read and left in the backlog.
ShiftKeep(q) == [task |-> Head(q), rest |-> q]

\* queue.pop() in the place of queue.shift()
ShiftLast(q) == [task |-> q[Len(q)], rest |-> SubSeq(q, 1, Len(q) - 1)]

\* const task = this.queue.shift(): the head, and what is left
Shift(q) == [task |-> Head(q), rest |-> Tail(q)]

\* The synchronous part of processQueue, called with backlog q and task table
\* tk: the guard, the shift, the slot accounting, and executeTask up to its
\* first await (the call of storage.getAgentRun).
ProcessQueue(q, tk) ==
    IF Blocked \/ q = <<>>
    THEN /\ queue' = q
         /\ tasks' = tk
         /\ UNCHANGED <<processing, activeCount, admitted>>
    ELSE LET s == Shift(q)
             t == s.task
         IN /\ queue' = s.rest
            /\ activeCount' = activeCount + 1
            /\ processing' = TRUE
            /\ admitted' = Append(admitted, t)
            /\ tasks' = [tk EXCEPT ![t].pc = "getRun",
                                   ![t].calls = Append(@, Call("getAgentRun", tk[t].run))]

\* queue.unshift(task) in the place of queue.push(task)
Unshift(q, t) == <<t>> \o q

\* this.queue.push(task)
Push(q, t) == Append(q, t)

\* The AgentTask of a route's enqueue call for run id r, not yet admitted.
NewTask(r) == [run |-> r, orgId |-> OrgOf(r), pc |-> "backlog",
               resp |-> NoResponse, err |-> Undefined, calls |-> <<>>,
               wroteCompleted |-> FALSE]

\* enqueue(task): push, emit "Task queued", processQueue()
Enqueue(r) ==
    /\ ~crashed
    /\ ~inListener
    /\ Len(tasks) < MaxTasks
    /\ ProcessQueue(Push(queue, Len(tasks) + 1), Append(tasks, NewTask(r)))
    /\ log' = Emit(log, r, "info", "Task queued")
    /\ UNCHANGED <<timers, rejected, faults, crashed>>
    /\ UNCHANGED storeVars
    /\ UNCHANGED outsideVars

\* The callback of setTimeout(() => this.processQueue(), 100)
TimerFires ==
    /\ ~crashed
    /\ ~inListener
    /\ timers > 0
    /\ timers' = timers - 1
    /\ ProcessQueue(queue, tasks)
    /\ UNCHANGED <<log, rejected, faults, crashed>>
    /\ UNCHANGED storeVars
    /\ UNCHANGED outsideVars

----------------------------------------------------------------------------
\* executeTask, one action per await

At(t, pc) == /\ ~crashed
             /\ ~inListener
             /\ t \in 1..Len(tasks)
             /\ tasks[t].pc = pc

\* executeTask moves on: it issues the next call and awaits it.
Goto(t, pc, call) ==
    tasks' = [tasks EXCEPT ![t].pc = pc, ![t].calls = Append(@, call)]

\* An exception reaches the catch block of processQueue: the error event is
\* emitted and storage.updateAgentRun(runId, {status: "failed", ...}) is awaited.
Caught(task, message) ==
    [task EXCEPT !.pc = "updFailed",
                 !.err = message,
                 !.calls = Append(@, Call("updateAgentRun", "failed"))]

Catch(t, message) ==
    /\ tasks' = [tasks EXCEPT ![t] = Caught(@, message)]
    /\ log' = Emit(log, tasks[t].run, "error", <<"Task failed", message>>)
    /\ UNCHANGED queueVars
    /\ UNCHANGED <<rejected, crashed>>

\* The awaited call of a collaborator (the store, the cost governor) throws.
Throws(t, message) ==
    /\ faults < MaxFaults
    /\ faults' = faults + 1
    /\ Catch(t, message)

\* The finally block without this.activeCount--: the slot is never given back.
FinallyKeepsSlot ==
    /\ activeCount' = activeCount
    /\ processing' = FALSE
    /\ timers' = IF Len(queue) > 0 THEN timers + 1 ELSE timers
    /\ UNCHANGED <<queue, admitted>>

\* The finally block of processQueue.
Finally ==
    /\ activeCount' = activeCount - 1
    /\ processing' = FALSE
    /\ timers' = IF Len(queue) > 0 THEN timers + 1 ELSE timers
    /\ UNCHANGED <<queue, admitted>>

\* The check of the run lost: every run id is taken to have a record.
RunFoundAlways(t) == TRUE

\* if (!run) throw new Error("Agent run not found"), negated
RunFound(t) == tasks[t].run \in DOMAIN runs

\* const run = await storage.getAgentRun(task.runId)
GetRunReturns(t) ==
    /\ At(t, "getRun")
    /\ \/ /\ RunFound(t)
          /\ log' = Emit(log, tasks[t].run, "info", "Starting agent run")
          /\ Goto(t, "updRunning", Call("updateAgentRun", "running"))
          /\ UNCHANGED queueVars
          /\ UNCHANGED <<rejected, faults, crashed>>
       \/ /\ ~RunFound(t)
          /\ Catch(t, "Agent run not found")
          /\ UNCHANGED faults
       \/ Throws(t, StoreError)
    /\ UNCHANGED storeVars
    /\ UNCHANGED outsideVars

\* await storage.updateAgentRun(task.runId, { status: "running" })
UpdRunningReturns(t) ==
    /\ At(t, "updRunning")
    /\ \/ /\ runs' = UpdateAgentRun(runs, tasks[t].run, [status |-> "running"])
          /\ Goto(t, "msgUser", Call("createMessage", "user"))
          /\ UNCHANGED <<log, rejected, faults, crashed>>
          /\ UNCHANGED queueVars
       \/ /\ Throws(t, StoreError)
          /\ UNCHANGED runs
    /\ UNCHANGED <<messages, usageRecords, auditLogs, costTracked>>
    /\ UNCHANGED outsideVars

\* await storage.createMessage({ ..., role: "user", content: task.goal })
MsgUserReturns(t) ==
    /\ At(t, "msgUser")
    /\ \/ /\ messages' = Append(messages, [run |-> tasks[t].run, role |-> "user"])
          /\ log' = Emit(log, tasks[t].run, "info", "Calling provider")
          /\ Goto(t, "exec", Call("callWithRetry", PrimaryProvider))
          /\ UNCHANGED <<rejected, faults, crashed>>
          /\ UNCHANGED queueVars
       \/ /\ Throws(t, StoreError)
          /\ UNCHANGED messages
    /\ UNCHANGED <<runs, usageRecords, auditLogs, costTracked>>
    /\ UNCHANGED outsideVars

\* if (!response.success) throw new Error(response.error || "Provider call failed")
ExecError(resp) == IF resp.error = Undefined THEN "Provider call failed" ELSE resp.error

\* The check of the response lost: every response is taken for a success.
SucceededAlways(resp) == TRUE

\* if (!response.success) throw ..., negated
Succeeded(resp) == resp.success

\* const response = await retryService.callWithRetry(...)
ExecReturns(t, resp) ==
    /\ At(t, "exec")
    /\ IF ~Succeeded(resp)
       THEN /\ tasks' = [tasks EXCEPT ![t] = Caught([@ EXCEPT !.resp = resp],
                                                    ExecError(resp))]
            /\ log' = Emit(log, tasks[t].run, "error",
                           <<"Task failed", ExecError(resp)>>)
       ELSE /\ log' = IF resp.usedProvider # PrimaryProvider
                      THEN Emit(log, tasks[t].run, "info", "Used fallback provider")
                      ELSE log
            /\ tasks' = [tasks EXCEPT ![t].pc = "msgAsst",
                                      ![t].resp = resp,
                                      ![t].calls = Append(@, Call("createMessage", "assistant"))]
    /\ UNCHANGED queueVars
    /\ UNCHANGED <<rejected, faults, crashed>>
    /\ UNCHANGED storeVars
    /\ UNCHANGED outsideVars

\* await storage.createMessage({ ..., role: "assistant", content: response.content || "" })
MsgAsstReturns(t) ==
    /\ At(t, "msgAsst")
    /\ \/ /\ messages' = Append(messages, [run |-> tasks[t].run, role |-> "assistant"])
          /\ Goto(t, "updCompleted", Call("updateAgentRun", "completed"))
          /\ UNCHANGED <<log, rejected, faults, crashed>>
          /\ UNCHANGED queueVars
       \/ /\ Throws(t, StoreError)
          /\ UNCHANGED messages
    /\ UNCHANGED <<runs, usageRecords, auditLogs, costTracked>>
    /\ UNCHANGED outsideVars

\* The output payload with the attempts of a first-try success, whatever the
\* executor reported.
OutputOfFirstAttempt(resp) ==
    [kind |-> "result", content |-> resp.content, usage |-> resp.cost,
     usedProvider |-> resp.usedProvider, attempts |-> 1]

\* outputJson: { content, usage, usedProvider, attempts }
OutputOf(resp) == [kind |-> "result", content |-> resp.content, usage |-> resp.cost,
                   usedProvider |-> resp.usedProvider, attempts |-> resp.attempts]

\* await storage.updateAgentRun(task.runId, { status: "completed", outputJson, costEstimate })
\* and then: if (parseFloat(costEstimate) > 0) await trackCost(task.orgId, costEstimate)
\* or, with nothing to track, const org = await storage.getOrg(task.orgId)
UpdCompletedReturns(t) ==
    /\ At(t, "updCompleted")
    /\ LET costEstimate == CostEstimate(tasks[t].resp)
       IN \/ /\ runs' = UpdateAgentRun(runs, tasks[t].run,
                           [status |-> "completed", output |-> OutputOf(tasks[t].resp),
                            costEstimate |-> costEstimate])
             /\ tasks' = [tasks EXCEPT
                   ![t].wroteCompleted = TRUE,
                   ![t].pc = IF CostIsPositive(costEstimate)
                             THEN "trackCost" ELSE "getOrg",
                   ![t].calls = Append(@, IF CostIsPositive(costEstimate)
                                          THEN Call("trackCost", costEstimate)
                                          ELSE Call("getOrg", tasks[t].orgId))]
             /\ UNCHANGED <<log, rejected, faults, crashed>>
             /\ UNCHANGED queueVars
          \/ /\ Throws(t, StoreError)
             /\ UNCHANGED runs
    /\ UNCHANGED <<messages, usageRecords, auditLogs, costTracked>>
    /\ UNCHANGED outsideVars

\* await trackCost(task.orgId, costEstimate)
TrackCostReturns(t) ==
    /\ At(t, "trackCost")
    /\ \/ /\ costTracked' = Append(costTracked,
                               [orgId |-> tasks[t].orgId, task |-> t,
                                cost |-> CostEstimate(tasks[t].resp)])
          /\ Goto(t, "getOrg", Call("getOrg", tasks[t].orgId))
          /\ UNCHANGED <<log, rejected, faults, crashed>>
          /\ UNCHANGED queueVars
       \/ /\ Throws(t, CostError)
          /\ UNCHANGED costTracked
    /\ UNCHANGED <<runs, messages, usageRecords, auditLogs>>
    /\ UNCHANGED outsideVars

\* The check of the organization lost: every org id is taken to have a record.
OrgFoundAlways(t) == TRUE

\* if (org)
OrgFound(t) == tasks[t].orgId \in orgs

\* const org = await storage.getOrg(task.orgId); if (org) createUsageRecord(...)
\* else the "success" event and createAuditLog(...)
GetOrgReturns(t) ==
    /\ At(t, "getOrg")
    /\ \/ /\ OrgFound(t)
          /\ Goto(t, "usage", Call("createUsageRecord", tasks[t].resp.usedProvider))
          /\ UNCHANGED <<log, rejected, faults, crashed>>
          /\ UNCHANGED queueVars
       \/ /\ ~OrgFound(t)
          /\ Goto(t, "audit", Call("createAuditLog", "agent_run_completed"))
          /\ log' = Emit(log, tasks[t].run, "success", "Agent run completed")
          /\ UNCHANGED <<rejected, faults, crashed>>
          /\ UNCHANGED queueVars
       \/ Throws(t, StoreError)
    /\ UNCHANGED storeVars
    /\ UNCHANGED outsideVars

\* await storage.createUsageRecord({...}), then the "success" event
UsageReturns(t) ==
    /\ At(t, "usage")
    /\ \/ /\ usageRecords' = Append(usageRecords,
                                [run |-> tasks[t].run, task |-> t,
                                 orgId |-> tasks[t].orgId,
                                 userId |-> OwnerOf(tasks[t].orgId),
                                 provider |-> tasks[t].resp.usedProvider,
                                 originalProvider |-> PrimaryProvider,
                                 cost |-> CostEstimate(tasks[t].resp),
                                 attempts |-> tasks[t].resp.attempts])
          /\ Goto(t, "audit", Call("createAuditLog", "agent_run_completed"))
          /\ log' = Emit(log, tasks[t].run, "success", "Agent run completed")
          /\ UNCHANGED <<rejected, faults, crashed>>
          /\ UNCHANGED queueVars
       \/ /\ Throws(t, StoreError)
          /\ UNCHANGED usageRecords
    /\ UNCHANGED <<runs, messages, auditLogs, costTracked>>
    /\ UNCHANGED outsideVars

\* await storage.createAuditLog({...}); executeTask returns, and processQueue
\* runs its finally block and resolves
AuditReturns(t) ==
    /\ At(t, "audit")
    /\ \/ /\ auditLogs' = Append(auditLogs,
                             [run |-> tasks[t].run, task |-> t,
                              provider |-> PrimaryProvider,
                              usedProvider |-> tasks[t].resp.usedProvider,
                              cost |-> CostEstimate(tasks[t].resp),
                              attempts |-> tasks[t].resp.attempts])
          /\ tasks' = [tasks EXCEPT ![t].pc = "done"]
          /\ Finally
          /\ UNCHANGED <<log, rejected, faults, crashed>>
       \/ /\ Throws(t, StoreError)
          /\ UNCHANGED auditLogs
    /\ UNCHANGED <<runs, messages, usageRecords, costTracked>>
    /\ UNCHANGED outsideVars

\* The catch block's await storage.updateAgentRun(task.runId, {status: "failed",
\* outputJson: {error}}) settles; the finally block runs.  When the update
\* throws, the exception leaves processQueue after the finally block: the
\* promise processQueue returned rejects.  Neither caller (enqueue, the timer
\* callback) awaits or catches it, so the rejection is unhandled, and whether
\* the process survives one is decided outside this class (Node ends the
\* process unless an unhandledRejection handler is installed).
UpdFailedReturns(t) ==
    /\ At(t, "updFailed")
    /\ tasks' = [tasks EXCEPT ![t].pc = "done"]
    /\ Finally
    /\ \/ /\ runs' = UpdateAgentRun(runs, tasks[t].run,
                        [status |-> "failed",
                         output |-> [kind |-> "error", error |-> tasks[t].err]])
          /\ UNCHANGED <<rejected, faults, crashed>>
       \/ /\ faults < MaxFaults
          /\ faults' = faults + 1
          /\ UNCHANGED runs
          /\ rejected' = rejected \cup {t}
          /\ crashed' \in BOOLEAN
    /\ UNCHANGED <<messages, usageRecords, auditLogs, costTracked, log>>
    /\ UNCHANGED outsideVars

----------------------------------------------------------------------------

\* The awaited call of task t settles and the task runs on to its next await.
TaskStep(t) ==
    \/ GetRunReturns(t)
    \/ UpdRunningReturns(t)
    \/ MsgUserReturns(t)
    \/ \E resp \in ExecOutcomes : ExecReturns(t, resp)
    \/ MsgAsstReturns(t)
    \/ UpdCompletedReturns(t)
    \/ TrackCostReturns(t)
    \/ GetOrgReturns(t)
    \/ UsageReturns(t)
    \/ AuditReturns(t)
    \/ UpdFailedReturns(t)

Next ==
    \/ \E r \in RunIds : Enqueue(r)
    \/ TimerFires
    \/ \E t \in 1..MaxTasks : TaskStep(t)

Spec == Init /\ [][Next]_vars

----------------------------------------------------------------------------
\* The consumers of the "log" events.  OrchestratorQueue extends EventEmitter,
\* and this.emit("log", ...) calls every listener of "log" inside the call, one
\* after the other, before it returns.  Spec is the queue whose listeners
\* return; here a listener may also not return, and then the segment that
\* called emit stops inside it, and with it the one thread that runs the queue.

\* enqueue's emit (line 31) calls a listener that does not return: the task
\* was pushed, and processQueue is not called.
EnqueueBlocksInListener(r) ==
    /\ ~crashed
    /\ ~inListener
    /\ Len(tasks) < MaxTasks
    /\ queue' = Push(queue, Len(tasks) + 1)
    /\ tasks' = Append(tasks, NewTask(r))
    /\ log' = Emit(log, r, "info", "Task queued")
    /\ inListener' = TRUE
    /\ UNCHANGED <<processing, activeCount, timers, admitted>>
    /\ UNCHANGED <<rejected, faults, crashed, executor, middleware>>
    /\ UNCHANGED storeVars

\* executeTask's "Starting agent run" emit (line 77) calls a listener that does
\* not return: the running update is not issued.
StartingBlocksInListener(t) ==
    /\ At(t, "getRun")
    /\ RunFound(t)
    /\ log' = Emit(log, tasks[t].run, "info", "Starting agent run")
    /\ tasks' = [tasks EXCEPT ![t].pc = "emit"]
    /\ inListener' = TRUE
    /\ UNCHANGED queueVars
    /\ UNCHANGED <<rejected, faults, crashed, executor, middleware>>
    /\ UNCHANGED storeVars

\* executeTask's "Calling ..." emit (line 92) calls a listener that does not
\* return: the user message was stored, and the executor is not called.
CallingBlocksInListener(t) ==
    /\ At(t, "msgUser")
    /\ messages' = Append(messages, [run |-> tasks[t].run, role |-> "user"])
    /\ log' = Emit(log, tasks[t].run, "info", "Calling provider")
    /\ tasks' = [tasks EXCEPT ![t].pc = "emit"]
    /\ inListener' = TRUE
    /\ UNCHANGED queueVars
    /\ UNCHANGED <<rejected, faults, crashed, executor, middleware>>
    /\ UNCHANGED <<runs, usageRecords, auditLogs, costTracked>>

ConsumerNext ==
    \/ Next
    \/ \E r \in RunIds : EnqueueBlocksInListener(r)
    \/ \E t \in 1..MaxTasks :
          \/ StartingBlocksInListener(t)
          \/ CallingBlocksInListener(t)

ConsumerSpec == Init /\ [][ConsumerNext]_vars

----------------------------------------------------------------------------
\* The retry service, retryService.callWithRetry(provider, prompt, model,
\* onProgress), which executeTask calls at line 97 and whose file is not among
\* the sources: one invocation, after its contract.  It calls the provider
\* transport once per attempt; a transient failure is retried on the same
\* provider until that provider has had AttemptCeiling calls; then, and on a
\* terminal failure at once, it goes on to the next provider of the fallback
\* order; it stops at the first success or when the last provider is exhausted.
\* onProgress is invoked before each retry and before each fallback.

\* The configured providers, in fallback order.
ProviderList == <<PrimaryProvider, FallbackProvider>>
Providers == {ProviderList[i] : i \in DOMAIN ProviderList}

\* The attempt ceiling: the calls one provider gets at most.
AttemptCeiling == 3

\* The providers an invocation tries, in order: the primary provider, then the
\* other configured providers.
FallbackOrder(primary) ==
    <<primary>> \o SelectSeq(ProviderList, LAMBDA p : p # primary)

\* The provider tried after provider p, Undefined after the last one.
NextProvider(primary, p) ==
    LET order == FallbackOrder(primary)
        i == CHOOSE j \in 1..Len(order) : order[j] = p
    IN IF i < Len(order) THEN order[i + 1] ELSE Undefined

\* The variables of the dispatch queue, which the retry service does not touch.
queueState == <<queueVars, storeVars, tasks, log, rejected, faults, crashed,
                inListener>>

\* The transport call that has just returned or thrown, added to the calls made.
CallsMade(result) ==
    Append(executor.calls, [provider |-> executor.provider, result |-> result])

\* The callback executeTask passes as onProgress: the warning event it emits
\* for one invocation, a fallback warning when nextProvider is given and a
\* retry warning otherwise.
WarningOf(p) ==
    IF p.nextProvider # Undefined
    THEN Event("warning", <<"Provider failed, falling back to", p.nextProvider, p.error>>)
    ELSE Event("warning", <<"Retry attempt", p.attempt, p.error>>)

\* onProgress is invoked twice for one step.
OnProgressTwice(attempt, error, nextProvider) ==
    executor.progress \o
        << [attempt |-> attempt, error |-> error, nextProvider |-> nextProvider],
           [attempt |-> attempt, error |-> error, nextProvider |-> nextProvider] >>

\* onProgress(attempt, error, nextProvider)
OnProgress(attempt, error, nextProvider) ==
    Append(executor.progress,
           [attempt |-> attempt, error |-> error, nextProvider |-> nextProvider])

\* callWithRetry is invoked: the first call goes to the primary provider.
CallWithRetry(primary) ==
    /\ executor.pc = "idle"
    /\ executor' = [executor EXCEPT !.pc = "calling", !.primary = primary,
                                    !.provider = primary]
    /\ UNCHANGED <<queueState, middleware>>

\* The transport call returns {content, usage}: the outcome is a success.
ProviderCallSucceeds(cost) ==
    /\ executor.pc = "calling"
    /\ executor' = [executor EXCEPT
           !.pc = "done",
           !.calls = CallsMade("ok"),
           !.outcome = [success |-> TRUE, content |-> "answer", cost |-> cost,
                        usedProvider |-> executor.provider,
                        attempts |-> Len(CallsMade("ok")), error |-> Undefined]]
    /\ UNCHANGED <<queueState, middleware>>

\* No failure is retried: every failure goes on to the next provider.
NeverRetry(error) == FALSE

\* The ceiling off by one: a provider gets one call more.
MayRetryOnceMore(error) == error = "transient" /\ executor.tries < AttemptCeiling

\* Every failure is retried, whatever its class.
MayRetryAnyError(error) == executor.tries + 1 < AttemptCeiling

\* A failure is retried on the same provider when it is transient and the
\* provider has not had its AttemptCeiling calls.
MayRetry(error) == error = "transient" /\ executor.tries + 1 < AttemptCeiling

\* The transport call throws and is retried on the same provider.
ProviderCallRetried(error) ==
    /\ executor.pc = "calling"
    /\ MayRetry(error)
    /\ executor' = [executor EXCEPT
           !.calls = CallsMade(error),
           !.tries = @ + 1,
           !.progress = OnProgress(Len(CallsMade(error)), error, Undefined)]
    /\ UNCHANGED <<queueState, middleware>>

\* The transport call throws, the provider is given up, and the next provider
\* of the fallback order is called.
ProviderFallsBack(error) ==
    LET next == NextProvider(executor.primary, executor.provider)
    IN /\ executor.pc = "calling"
       /\ ~MayRetry(error)
       /\ next # Undefined
       /\ executor' = [executor EXCEPT
              !.calls = CallsMade(error),
              !.tries = 0,
              !.provider = next,
              !.progress = OnProgress(Len(CallsMade(error)), error, next)]
       /\ UNCHANGED <<queueState, middleware>>

\* The transport call throws and no provider is left: the outcome is a failure.
ProvidersExhausted(error) ==
    /\ executor.pc = "calling"
    /\ ~MayRetry(error)
    /\ NextProvider(executor.primary, executor.provider) = Undefined
    /\ executor' = [executor EXCEPT
           !.pc = "done",
           !.calls = CallsMade(error),
           !.outcome = [success |-> FALSE, content |-> Undefined,
                        cost |-> Undefined, usedProvider |-> Undefined,
                        attempts |-> Len(CallsMade(error)),
                        error |-> "All providers failed"]]
    /\ UNCHANGED <<queueState, middleware>>

\* The failures of a transport call: of the transient class (timeout, rate
\* limit, connection failure) or terminal (invalid request, authentication).
TransportErrors == {"transient", "terminal"}

ExecutorNext ==
    \/ \E primary \in Providers : CallWithRetry(primary)
    \/ \E cost \in CostStrings : ProviderCallSucceeds(cost)
    \/ \E error \in TransportErrors :
          \/ ProviderCallRetried(error)
          \/ ProviderFallsBack(error)
          \/ ProvidersExhausted(error)

ExecutorSpec == Init /\ [][ExecutorNext]_vars

----------------------------------------------------------------------------
\* The SCBE security middleware (scbeApiMiddleware), one request, one action
\* per await.

\* export type GovernanceTier = 1 | 2 | 3 | 4
GovernanceTiers == 1..4

\* req.method of the requests served, and req.path
Methods == {"GET", "POST", "DELETE"}
Paths == {"/api/runs"}

\* String.prototype.toLowerCase on the methods
ToLowerCase(s) ==
    CASE s = "GET" -> "get"
      [] s = "POST" -> "post"
      [] s = "DELETE" -> "delete"
      [] OTHER -> s

\* action: `${req.method}:${req.path}`, kept as its two parts
Action(method, path) == <<method, path>>

\* const riskFactors: Record<string, number>
riskFactors ==
    ("read" :> 1) @@ ("list" :> 1) @@ ("create" :> 2) @@ ("update" :> 3) @@
    ("delete" :> 4) @@ ("execute" :> 5) @@ ("admin" :> 6)

\* context.operation.split(':')[0].toLowerCase()
OperationType(operation) == ToLowerCase(operation[1])

\* const distance = riskFactors[operationType] || 3
DistanceOf(operation) ==
    IF OperationType(operation) \in DOMAIN riskFactors
    THEN riskFactors[OperationType(operation)]
    ELSE 3

\* if (distance <= 1) tier = 1; else if (distance <= 2) tier = 2;
\* else if (distance <= 4) tier = 3; else tier = 4
TierOf(distance) ==
    IF distance <= 1 THEN 1
    ELSE IF distance <= 2 THEN 2
    ELSE IF distance <= 4 THEN 3
    ELSE 4

\* Local evaluation that refuses every request.
EvaluateSecurityRefuses(operation) ==
    [allowed |-> FALSE, governanceTier |-> TierOf(DistanceOf(operation))]

\* evaluateSecurity(context): the fields of the result the middleware reads
EvaluateSecurity(operation) ==
    [allowed |-> TRUE, governanceTier |-> TierOf(DistanceOf(operation))]

\* What `await response.json()` can resolve to: a body of the declared shape,
\* a body with a decision outside the declared three, or the JSON value null.
NullBody ==
    [json |-> "null", decision |-> Undefined, trap_activated |-> FALSE,
     reason |-> Undefined]

ApiBodies ==
    [json : {"object"}, decision : {"DENY"}, trap_activated : BOOLEAN,
     reason : {"remote"}]
    \cup
    [json : {"object"}, decision : {"QUARANTINE", "ALLOW", "REVIEW"},
     trap_activated : {FALSE}, reason : {"remote"}]
    \cup {NullBody}

\* No response of the evaluation yet.
NoResult ==
    [json |-> "none", decision |-> Undefined, trap_activated |-> FALSE,
     reason |-> Undefined]

\* The response evaluateWithSCBEApi builds in its catch block.
LocalResponse(localResult) ==
    [json |-> "object",
     decision |-> IF localResult.allowed THEN "ALLOW" ELSE "DENY",
     trap_activated |-> FALSE,
     reason |-> "Local evaluation"]

\* The catch block of evaluateWithSCBEApi: console.warn, evaluateSecurity and
\* the return of the local response to the middleware.
FallsBackToLocal(api) ==
    middleware' = [middleware EXCEPT
        !.pc = "evaluated",
        !.api = api,
        !.result = LocalResponse(EvaluateSecurity(Action(middleware.method,
                                                         middleware.path)))]

middlewareFrame == <<queueState, executor>>

\* The middleware is called for a request: it builds the SCBEApiRequest and
\* calls evaluateWithSCBEApi, which awaits fetch(...).
ScbeApiMiddleware(method, path, minTier) ==
    /\ middleware.pc = "idle"
    /\ middleware' = [middleware EXCEPT !.pc = "fetch", !.method = method,
                                        !.path = path, !.minTier = minTier]
    /\ UNCHANGED middlewareFrame

\* await fetch(...) rejects
FetchRejects ==
    /\ middleware.pc = "fetch"
    /\ FallsBackToLocal("fetch rejected")
    /\ UNCHANGED middlewareFrame

\* await fetch(...) resolves; response.ok decides between text() and json()
FetchResolves(ok) ==
    /\ middleware.pc = "fetch"
    /\ middleware' = [middleware EXCEPT !.pc = IF ok THEN "json" ELSE "text"]
    /\ UNCHANGED middlewareFrame

\* await response.text() settles: resolved, the SCBE API error is thrown;
\* rejected, its own error is.  Both reach the catch block.
TextSettles ==
    /\ middleware.pc = "text"
    /\ FallsBackToLocal("not ok")
    /\ UNCHANGED middlewareFrame

\* await response.json() rejects: the body is not JSON
JsonRejects ==
    /\ middleware.pc = "json"
    /\ FallsBackToLocal("body not JSON")
    /\ UNCHANGED middlewareFrame

\* return await response.json()
JsonResolves(body) ==
    /\ middleware.pc = "json"
    /\ middleware' = [middleware EXCEPT !.pc = "evaluated", !.api = "ok",
                                        !.result = body]
    /\ UNCHANGED middlewareFrame

\* The DENY branch lost.
IsDenyNever(result) == FALSE

\* if (result.decision === 'DENY')
IsDeny(result) == result.decision = "DENY"

\* if (result.decision === 'QUARANTINE')
IsQuarantine(result) == result.decision = "QUARANTINE"

\* result.decision throws a TypeError when result is null
DecisionReadThrows(result) == result.json = "null"

\* res.status(code).json(...)
Responds(mw, code) == [mw EXCEPT !.pc = "done", !.status = code]

\* req.scbe = ...; next()
Proceeds(mw, scbe) == [mw EXCEPT !.pc = "done", !.scbe = scbe,
                                 !.nextCalls = @ + 1]

\* The catch block of the middleware: local evaluation against minTier.
MiddlewareCatch(mw) ==
    LET localResult == EvaluateSecurity(Action(mw.method, mw.path))
        caught == [mw EXCEPT !.error = TRUE]
    IN IF localResult.governanceTier < mw.minTier
       THEN Responds(caught, 403)
       ELSE Proceeds(caught, "localResult")

\* const result = await evaluateWithSCBEApi(request) resolves, and the
\* middleware runs to its end.
EvaluationReturns ==
    /\ middleware.pc = "evaluated"
    /\ LET result == middleware.result
       IN middleware' =
             IF DecisionReadThrows(result)
             THEN MiddlewareCatch(middleware)
             ELSE IF IsDeny(result)
             THEN Responds([middleware EXCEPT
                               !.traps = IF result.trap_activated THEN @ + 1 ELSE @],
                           403)
             ELSE IF IsQuarantine(result)
             THEN Responds(middleware, 202)
             ELSE Proceeds(middleware, "result")
    /\ UNCHANGED middlewareFrame

MiddlewareNext ==
    \/ \E method \in Methods, path \in Paths, minTier \in GovernanceTiers :
          ScbeApiMiddleware(method, path, minTier)
    \/ FetchRejects
    \/ \E ok \in BOOLEAN : FetchResolves(ok)
    \/ TextSettles
    \/ JsonRejects
    \/ \E body \in ApiBodies : JsonResolves(body)
    \/ EvaluationReturns

MiddlewareSpec == Init /\ [][MiddlewareNext]_vars

----------------------------------------------------------------------------
\* Properties

Tasks == 1..Len(tasks)

\* Task t has been admitted and its finally block has not run yet.
Executing(t) == tasks[t].pc \notin {"backlog", "done"}

\* Task t's execution has ended (processQueue settled for it).
Ended(t) == tasks[t].pc = "done"

\* Run id r has been enqueued exactly once.
EnqueuedOnce(r) == Cardinality({t \in Tasks : tasks[t].run = r}) = 1

\* The calls of operation op that task t has issued.
CallsOf(t, op) == SelectSeq(tasks[t].calls, LAMBDA c : c.op = op)

\* The rows of a store table (a sequence) that belong to run r, or that task t
\* wrote.
RowsOfRun(table, r) == {i \in 1..Len(table) : table[i].run = r}
RowsOfTask(table, t) == {i \in 1..Len(table) : table[i].task = t}

AssistantMessages(r) ==
    {i \in 1..Len(messages) : messages[i].run = r /\ messages[i].role = "assistant"}

StoreWrites == {"updateAgentRun", "createMessage", "createUsageRecord", "createAuditLog"}

HasEvent(r, type) == \E i \in 1..Len(log[r]) : log[r][i].type = type

\* C1: the number of tasks admitted by processQueue that have not yet released
\* their slot, and activeCount, never exceed concurrency.
C1_ActiveWithinConcurrency ==
    /\ activeCount <= concurrency
    /\ Cardinality({t \in Tasks : Executing(t)}) <= concurrency

\* A task executes while two more wait in the backlog.
C1_Witness == activeCount = 1 /\ Len(queue) = 2

\* C2: a task waits in the backlog only while all concurrency slots are taken
\* (or, with no task active, during the delay of the re-admission timer): with
\* fewer than concurrency tasks active it is admitted at once.
C2_AdmitsWhileSlotFree ==
    (~crashed /\ queue # <<>>) =>
        \/ activeCount >= concurrency
        \/ activeCount = 0 /\ timers > 0

\* C3: backlog admission is FIFO: tasks are admitted in the order of their
\* enqueue calls, and the backlog holds the tasks not yet admitted in that order.
C3_FifoAdmission ==
    /\ \A i \in 1..Len(admitted) : admitted[i] = i
    /\ \A i \in 1..Len(queue) : queue[i] = Len(admitted) + i
    /\ Len(admitted) + Len(queue) = Len(tasks)

\* Task 2 was admitted by enqueue(3) during the delay between the release of
\* task 1's slot and the timer's admission attempt; task 3 waits behind it.
C3_Witness ==
    /\ admitted = <<1, 2>>
    /\ queue = <<3>>
    /\ timers = 1
    /\ tasks[2].pc = "getRun"

\* C4: once the queue has written `completed` or `failed` to a Run whose id
\* was enqueued once, no later step changes that Run's status or output.
C4_StatusMonotonic ==
    [][\A r \in ExistingRuns :
          (/\ Cardinality({t \in 1..Len(tasks') : tasks'[t].run = r}) <= 1
           /\ runs[r].status \in {"completed", "failed"})
          => runs'[r] = runs[r]]_vars

\* The success-path side effects of task t have all succeeded.
SideEffectsDone(t) ==
    /\ AssistantMessages(tasks[t].run) # {}
    /\ ParseFloat(CostEstimate(tasks[t].resp)) > 0
          => RowsOfTask(costTracked, t) # {}
    /\ tasks[t].orgId \in orgs => RowsOfTask(usageRecords, t) # {}
    /\ RowsOfTask(auditLogs, t) # {}

\* C5: a Run has status `completed` only when the executor has returned and the
\* assistant message write, cost tracking, the Usage record write and the Audit
\* record write have all succeeded.
C5_CompletedAfterSideEffects ==
    \A t \in Tasks :
        (/\ tasks[t].run \in ExistingRuns
         /\ EnqueuedOnce(tasks[t].run)
         /\ runs[tasks[t].run].status = "completed")
        => tasks[t].resp.success /\ SideEffectsDone(t)

\* C6: when a task's execution has ended on the failure path (the executor
\* failed or a store or cost-tracking call threw during executeTask) and the
\* update of the catch block was acknowledged, the Run is `failed` with the
\* error message in its output, an `error` event was emitted for the run id,
\* and no Usage record and no Audit record exists for the run.
C6_FailurePath ==
    \A t \in Tasks :
        (/\ Ended(t)
         /\ tasks[t].err # Undefined
         /\ t \notin rejected
         /\ tasks[t].run \in ExistingRuns
         /\ EnqueuedOnce(tasks[t].run))
        => /\ runs[tasks[t].run].status = "failed"
           /\ runs[tasks[t].run].output = [kind |-> "error", error |-> tasks[t].err]
           /\ HasEvent(tasks[t].run, "error")
           /\ RowsOfRun(usageRecords, tasks[t].run) = {}
           /\ RowsOfRun(auditLogs, tasks[t].run) = {}

\* No message, Usage record, Audit record or tracked cost exists for the run id
\* that has no record.
NothingStoredForMissingRun ==
    /\ RowsOfRun(messages, MissingRun) = {}
    /\ RowsOfRun(usageRecords, MissingRun) = {}
    /\ RowsOfRun(auditLogs, MissingRun) = {}
    /\ {i \in 1..Len(costTracked) : costTracked[i].orgId = OrgOf(MissingRun)} = {}

\* C7 as stated: a task whose run id has no record issues no store write for
\* that run id, and nothing is stored for it.
C7_NoStoreWriteForMissingRun ==
    /\ NothingStoredForMissingRun
    /\ \A t \in Tasks :
          tasks[t].run = MissingRun =>
              \A i \in 1..Len(tasks[t].calls) : tasks[t].calls[i].op \notin StoreWrites

\* C7: a task whose run id has no record reads the run and then issues exactly
\* one store write, the `failed` update of the catch block, after the `error`
\* event; it writes no message, no Usage or Audit record and tracks no cost,
\* and its events are the `Task queued` info event and the `error` event.
C7_MissingRunEffects ==
    /\ NothingStoredForMissingRun
    /\ \A i \in 1..Len(log[MissingRun]) :
          \/ log[MissingRun][i] = Event("info", "Task queued")
          \/ log[MissingRun][i].type = "error"
    /\ \A t \in Tasks :
          tasks[t].run = MissingRun =>
              CASE tasks[t].pc = "backlog" -> tasks[t].calls = <<>>
                [] tasks[t].pc = "getRun" ->
                       tasks[t].calls = <<Call("getAgentRun", MissingRun)>>
                [] OTHER ->
                       /\ tasks[t].calls = <<Call("getAgentRun", MissingRun),
                                             Call("updateAgentRun", "failed")>>
                       /\ tasks[t].pc \in {"updFailed", "done"}
                       /\ HasEvent(MissingRun, "error")

\* A task for the missing run has ended with "Agent run not found".
C7_Witness ==
    \E t \in Tasks :
        /\ tasks[t].run = MissingRun
        /\ Ended(t)
        /\ tasks[t].err = "Agent run not found"

\* C8: the promise returned by processQueue never rejects.
C8_ProcessQueueNeverRejects == rejected = {}

\* C9: once a task has ended, for whatever reason, the queue is not stalled:
\* while the backlog is not empty the process is alive and a task is executing
\* or a re-admission timer is pending, so the backlog head will be admitted.
C9_NoStallAfterFailure ==
    \A t \in Tasks :
        (Ended(t) /\ queue # <<>>) => (~crashed /\ (activeCount > 0 \/ timers > 0))

UsageRecordOf(t) ==
    [run |-> tasks[t].run, task |-> t, orgId |-> tasks[t].orgId,
     userId |-> OwnerOf(tasks[t].orgId),
     provider |-> tasks[t].resp.usedProvider,
     originalProvider |-> PrimaryProvider,
     cost |-> CostEstimate(tasks[t].resp),
     attempts |-> tasks[t].resp.attempts]

C12_AuditOncePerCompletedRun ==
    \A t \in Tasks :
        (/\ Ended(t)
         /\ tasks[t].run \in ExistingRuns
         /\ EnqueuedOnce(tasks[t].run))
        => LET rows == RowsOfRun(auditLogs, tasks[t].run)
           IN /\ Cardinality(rows) = IF tasks[t].wroteCompleted THEN 1 ELSE 0
              /\ runs[tasks[t].run].status = "completed" => rows # {}

\* C13: a task for an existing Run brings that Run to a terminal status; once
\* the task's execution has ended, whether its calls returned or threw, the
\* Run is `completed` or `failed` (no step after the end of the execution
\* writes the Run, so a Run then left `queued` or `running` stays so forever).
C13_EndedRunIsTerminal ==
    \A t \in Tasks :
        (/\ Ended(t)
         /\ tasks[t].run \in ExistingRuns
         /\ EnqueuedOnce(tasks[t].run))
        => runs[tasks[t].run].status \in {"completed", "failed"}

\* What the claim says of a call enqueue(task) for run id r, as a relation
\* between the state before the call and the state when it returns: the task is
\* appended at the end of the backlog and no task is dropped; one admission
\* attempt is made, which admits the head of the backlog unless a task is being
\* processed or all slots are taken; and the call returns at the admitted task's
\* first await: no store row is written and no execution has ended.
EnqueueEffect(r) ==
    LET t == Len(tasks) + 1
        pushed == Append(queue, t)
    IN /\ Len(tasks') = t
       /\ tasks'[t].run = r
       /\ \A u \in 1..Len(tasks) : tasks'[u].run = tasks[u].run
       /\ IF processing \/ activeCount >= concurrency
          THEN /\ queue' = pushed
               /\ admitted' = admitted
               /\ activeCount' = activeCount
          ELSE /\ queue' = Tail(pushed)
               /\ admitted' = Append(admitted, Head(pushed))
               /\ activeCount' = activeCount + 1
               /\ tasks'[Head(pushed)].pc = "getRun"
       /\ \A u \in 1..Len(tasks) \ {Head(pushed)} : tasks'[u].pc = tasks[u].pc
       /\ log'[r] = Append(log[r], Event("info", "Task queued"))
       /\ UNCHANGED storeVars

\* C14: in every state of the queue (any backlog length, any number of active
\* tasks) in which the process is alive, enqueue(task) is enabled for every run
\* id and has the effect the claim states.  (Len(tasks) < MaxTasks bounds the
\* number of enqueue calls of the model.)
C14_EnqueueAlwaysSucceeds ==
    (~crashed /\ Len(tasks) < MaxTasks) =>
        \A r \in RunIds : ENABLED (Enqueue(r) /\ EnqueueEffect(r))

\* enqueue was called while a task was executing and another waited: the new
\* task waits behind it at the end of the backlog.
C14_Witness ==
    /\ Len(tasks) = 3
    /\ queue = <<2, 3>>
    /\ tasks[1].pc = "exec"
    /\ log[tasks[3].run] # <<>>

\* How many times task number t occurs in the sequence s.
Occurrences(s, t) == Cardinality({i \in 1..Len(s) : s[i] = t})

\* C15: every enqueued task is in the backlog exactly once or was admitted
\* exactly once, never both and never neither; it was passed to executeTask
\* (whose first step is the read of the Run) exactly once when admitted and not
\* at all while it waits.
C15_ConsumedExactlyOnce ==
    \A t \in Tasks :
        /\ Occurrences(queue, t) + Occurrences(admitted, t) = 1
        /\ Occurrences(queue, t) = 1 <=> tasks[t].pc = "backlog"
        /\ Len(CallsOf(t, "getAgentRun")) = Occurrences(admitted, t)
        /\ Len(CallsOf(t, "callWithRetry")) <= 1

\* Three tasks were enqueued and each was executed to its end, once.
C15_Witness ==
    /\ Len(tasks) = 3
    /\ queue = <<>>
    /\ \A t \in Tasks : Ended(t) /\ Len(CallsOf(t, "getAgentRun")) = 1

\* C16: for a run id enqueued once, the executor is invoked at most once per
\* admitted task, and when it returned success = false and the task's execution
\* has ended, the Run is `failed` with the executor's error in its output, and
\* the run has no assistant message, tracked cost, Usage record or Audit record.
C16_QueueRetriesNothing ==
    \A t \in Tasks :
        /\ Len(CallsOf(t, "callWithRetry")) <= 1
        /\ (/\ Ended(t)
            /\ tasks[t].resp \in ExecOutcomes
            /\ ~tasks[t].resp.success
            /\ EnqueuedOnce(tasks[t].run))
           => /\ runs[tasks[t].run].status = "failed"
              /\ runs[tasks[t].run].output =
                    [kind |-> "error", error |-> ExecError(tasks[t].resp)]
              /\ AssistantMessages(tasks[t].run) = {}
              /\ RowsOfTask(costTracked, t) = {}
              /\ RowsOfRun(usageRecords, tasks[t].run) = {}
              /\ RowsOfRun(auditLogs, tasks[t].run) = {}

\* The executor invocations in flight for run id r: the tasks for r that await
\* retryService.callWithRetry.
InFlight(r) == {t \in Tasks : tasks[t].run = r /\ tasks[t].pc = "exec"}

\* C17: a Run has at most one executor invocation in flight at any time, also
\* when its run id was enqueued more than once.
C17_OneInFlightPerRun ==
    \A r \in RunIds : Cardinality(InFlight(r)) <= 1

\* The same run id was enqueued three times; the second task awaits the
\* executor after the first has ended, and the third waits in the backlog.
C17_Witness ==
    /\ Len(tasks) = 3
    /\ \A t \in Tasks : tasks[t].run = RunWithOrg
    /\ Ended(1)
    /\ InFlight(RunWithOrg) = {2}
    /\ queue = <<3>>

\* The status transitions of the Run state machine.
AllowedTransitions ==
    {<<"queued", "running">>, <<"running", "completed">>, <<"running", "failed">>}

\* C18: every change of the status of a Run whose id was enqueued once follows
\* queued -> running -> {completed | failed}: to `running` only from `queued`,
\* to `completed` or `failed` only from `running`.  (The formula lets pass the
\* one transition the claim's words exclude and the design requires elsewhere:
\* `queued` to `failed`, when the read of the Run or the `running` update
\* throws; what it forbids is then forbidden by both.)
C18_StatusTransitions ==
    [][\A r \in ExistingRuns :
          (/\ Cardinality({t \in 1..Len(tasks') : tasks'[t].run = r}) <= 1
           /\ runs'[r].status # runs[r].status)
          => <<runs[r].status, runs'[r].status>>
                \in AllowedTransitions \cup {<<"queued", "failed">>}]_vars

\* C19: whatever the consumers of the log events do, the queue can go on: while
\* the process is alive, enqueue can be called and returns, a pending
\* re-admission timer can fire, and every executing task can take its next step
\* when its awaited call settles.
C19_ConsumersCannotBlock ==
    ~crashed =>
        /\ Len(tasks) < MaxTasks => \A r \in RunIds : ENABLED Enqueue(r)
        /\ timers > 0 => ENABLED TimerFires
        /\ \A t \in Tasks : Executing(t) => ENABLED TaskStep(t)

\* C20: when the first k calls of an invocation failed transiently and the next
\* call succeeded, with k below the attempt ceiling, the invocation has ended
\* with that call, every one of its calls went to the primary provider, and its
\* outcome is a success with usedProvider the primary provider and attempts k+1.
C20_TransientRetry ==
    \A k \in 0..(AttemptCeiling - 1) :
        (/\ Len(executor.calls) > k
         /\ \A i \in 1..k : executor.calls[i].result = "transient"
         /\ executor.calls[k + 1].result = "ok")
        => /\ executor.pc = "done"
           /\ Len(executor.calls) = k + 1
           /\ \A i \in 1..(k + 1) : executor.calls[i].provider = executor.primary
           /\ executor.outcome.success
           /\ executor.outcome.usedProvider = executor.primary
           /\ executor.outcome.attempts = k + 1

\* The primary provider failed transiently on every call but its last one,
\* which succeeded: onProgress announced each retry and no fallback.
C20_Witness ==
    /\ executor.pc = "done"
    /\ Len(executor.calls) = AttemptCeiling
    /\ \A i \in 1..(AttemptCeiling - 1) : executor.calls[i].result = "transient"
    /\ executor.calls[AttemptCeiling].result = "ok"
    /\ Len(executor.progress) = AttemptCeiling - 1
    /\ \A i \in 1..Len(executor.progress) :
          executor.progress[i].nextProvider = Undefined
    /\ executor.outcome.attempts = AttemptCeiling

C22_ExhaustionFailsRun ==
    \A t \in Tasks :
        (/\ tasks[t].resp \in ExecOutcomes
         /\ ~tasks[t].resp.success
         /\ EnqueuedOnce(tasks[t].run))
        => /\ tasks[t].resp.attempts = Len(ProviderList) * AttemptCeiling
           /\ Ended(t) =>
                 /\ runs[tasks[t].run].status = "failed"
                 /\ runs[tasks[t].run].output.kind = "error"
                 /\ runs[tasks[t].run].output.error = ExecError(tasks[t].resp)

\* C23: a call that failed with a terminal error is never followed by another
\* call to the same provider: the next call goes to the next provider of the
\* fallback order, and when there is none the invocation ends; the outcome is a
\* failure only when the last call went to the last provider of the order and
\* every provider of the order was called.
C23_TerminalErrorNotRetried ==
    LET calls == executor.calls
        n == Len(calls)
    IN /\ \A i \in 1..n :
             calls[i].result = "terminal" =>
                LET next == NextProvider(executor.primary, calls[i].provider)
                IN IF i < n
                   THEN /\ calls[i + 1].provider # calls[i].provider
                        /\ calls[i + 1].provider = next
                   ELSE IF next = Undefined
                        THEN executor.pc = "done" /\ ~executor.outcome.success
                        ELSE executor.pc = "calling" /\ executor.provider = next
       /\ (executor.pc = "done" /\ ~executor.outcome.success)
             => /\ NextProvider(executor.primary, calls[n].provider) = Undefined
                /\ \A p \in Providers : \E i \in 1..n : calls[i].provider = p
                /\ \A i \in 1..n : calls[i].result # "ok"

\* The primary provider failed at once with a terminal error, the secondary
\* provider was called next and failed with one too: two calls, and a failure.
C23_Witness ==
    /\ executor.pc = "done"
    /\ ~executor.outcome.success
    /\ Len(executor.calls) = 2
    /\ \A i \in 1..2 : executor.calls[i].result = "terminal"
    /\ executor.calls[1].provider # executor.calls[2].provider
    /\ executor.outcome.attempts = 2

\* The onProgress invocations and the provider calls of the invocation agree:
\* one invocation for each failed call that was followed by a retry or a
\* fallback, made before the next call, with the number and the error of the
\* failed call and with the next provider exactly when the next call goes to
\* another provider; none for the call that gave the terminal outcome.  The
\* warning event of each is a retry warning or a fallback warning accordingly.
ProgressMatchesCalls ==
    LET calls == executor.calls
        progress == executor.progress
    IN /\ Len(progress) = IF executor.pc = "done" THEN Len(calls) - 1 ELSE Len(calls)
       /\ \A i \in 1..Len(progress) :
             /\ calls[i].result # "ok"
             /\ progress[i].attempt = i
             /\ progress[i].error = calls[i].result
             /\ LET next == IF i < Len(calls) THEN calls[i + 1].provider
                                              ELSE executor.provider
                IN /\ progress[i].nextProvider =
                         IF next = calls[i].provider THEN Undefined ELSE next
                   /\ WarningOf(progress[i]).type = "warning"
                   /\ WarningOf(progress[i]).message[1] =
                         IF next = calls[i].provider
                         THEN "Retry attempt"
                         ELSE "Provider failed, falling back to"

StepRank(c) ==
    CASE c.op = "updateAgentRun" /\ c.arg = "running" -> 1
      [] c.op = "createMessage" /\ c.arg = "user" -> 2
      [] c.op = "callWithRetry" -> 3
      [] c.op = "createMessage" /\ c.arg = "assistant" -> 4
      [] c.op = "updateAgentRun" /\ c.arg = "completed" -> 5
      [] c.op = "trackCost" -> 6
      [] c.op = "createUsageRecord" -> 7
      [] c.op = "createAuditLog" -> 8
      [] c.op = "updateAgentRun" /\ c.arg = "failed" -> 9
      [] OTHER -> 0

\* The ranks of the calls a task has invoked so far, in the order of invocation.
RanksOf(t) == [i \in 1..Len(tasks[t].calls) |-> StepRank(tasks[t].calls[i])]

\* The orders of section 4.1 with the two reads in their places: trackCost and
\* the usage record are each present or absent.
StepOrders ==
    { <<0, 1, 2, 3, 4, 5>> \o a \o <<0>> \o b \o <<8>> :
         a \in {<<>>, <<6>>}, b \in {<<>>, <<7>>} }

IsPrefix(s, o) == Len(s) <= Len(o) /\ SubSeq(o, 1, Len(s)) = s

\* C25: the calls of a task are invoked in the order running, user message,
\* executor, assistant message, completed, trackCost (only with a cost above
\* zero), usage record (only with the organization found), audit entry: what a
\* task has invoked is the beginning of that order, followed by the catch
\* block's update when a step failed.  The audit entry is not reached past a
\* due trackCost or usage record, and the assistant message is never written
\* when the executor returned a failure.
C25_StoreOperationsInOrder ==
    \A t \in Tasks :
        LET ranks == RanksOf(t)
            n == Len(ranks)
            steps == IF n > 0 /\ ranks[n] = 9 THEN SubSeq(ranks, 1, n - 1) ELSE ranks
            has == {steps[i] : i \in 1..Len(steps)}
            positive == ParseFloat(CostEstimate(tasks[t].resp)) > 0
        IN /\ \E o \in StepOrders : IsPrefix(steps, o)
           /\ (n > 0 /\ ranks[n] = 9) => n > 1
           /\ 4 \in has => tasks[t].resp.success
           /\ 6 \in has => positive
           /\ 7 \in has => tasks[t].orgId \in orgs
           /\ 8 \in has => /\ positive => 6 \in has
                           /\ tasks[t].orgId \in orgs => 7 \in has

\* A task has gone through all eight steps, and another one has ended after a
\* failure of the executor.
C25_Witness ==
    /\ \E t \in Tasks :
          /\ Ended(t)
          /\ RanksOf(t) = <<0, 1, 2, 3, 4, 5, 6, 0, 7, 8>>
    /\ \E t \in Tasks :
          /\ Ended(t)
          /\ RanksOf(t) = <<0, 1, 2, 3, 9>>

\* C26: an admission is one uninterrupted step.  Whenever a task is admitted,
\* in that same step the guard held before it (processing unset, activeCount
\* below concurrency), exactly one task is admitted, it had not been admitted
\* before, it leaves the backlog, activeCount grows by one and processing is
\* set; a step that admits nothing does not raise activeCount.  So across all
\* interleavings of enqueue calls, timer callbacks and task completions no
\* task is admitted twice and none past the limit.
C26_AdmissionIsAtomic ==
    [][IF admitted' # admitted
       THEN /\ ~processing
            /\ activeCount < concurrency
            /\ Len(admitted') = Len(admitted) + 1
            /\ SubSeq(admitted', 1, Len(admitted)) = admitted
            /\ LET t == admitted'[Len(admitted')]
               IN /\ \A i \in 1..Len(admitted) : admitted[i] # t
                  /\ \A i \in 1..Len(queue') : queue'[i] # t
                  /\ tasks'[t].pc = "getRun"
            /\ activeCount' = activeCount + 1
            /\ activeCount' <= concurrency
            /\ processing'
       ELSE activeCount' <= activeCount]_vars

\* Enqueue calls, timer callbacks and completions have interleaved: the third
\* task was admitted by a timer callback while another timer is still pending,
\* after the second was admitted by an enqueue call ahead of its timer.
C26_Witness ==
    /\ admitted = <<1, 2, 3>>
    /\ Ended(1) /\ Ended(2)
    /\ tasks[3].pc = "getRun"
    /\ timers = 1
    /\ activeCount = 1

\* The positions in the log of run id r of the events with the given message.
EventsAt(r, message) == {i \in 1..Len(log[r]) : log[r][i].message = message}

\* C27: for a run id enqueued once, the log events follow the steps and every
\* status transition has its event: `Task queued` is the first event, the
\* `Starting agent run` event is there when the update to `running` is invoked
\* and comes before the `Calling provider` event, a `success` event was emitted when the
\* task has ended after its transition to `completed`, and an `error` event
\* when the Run is `failed`.  (The retry and fallback warnings belong to the
\* executor's invocation, see ProgressMatchesCalls.)
C27_EventForEveryTransition ==
    \A t \in Tasks :
        LET r == tasks[t].run
        IN (r \in ExistingRuns /\ EnqueuedOnce(r)) =>
             /\ EventsAt(r, "Task queued") = {1}
             /\ 1 \in {RanksOf(t)[i] : i \in 1..Len(tasks[t].calls)}
                   => EventsAt(r, "Starting agent run") = {2}
             /\ \A i \in EventsAt(r, "Calling provider") : i = 3
             /\ (Ended(t) /\ tasks[t].wroteCompleted) => HasEvent(r, "success")
             /\ runs[r].status = "failed" => HasEvent(r, "error")

\* The terminal events in the log of run id r.
TerminalEvents(r) == {i \in 1..Len(log[r]) : log[r][i].type \in {"success", "error"}}

\* C28: the execution of a task emits exactly one terminal event for its run
\* id, `success` or `error` and never both, and the event agrees with the Run's
\* final status: `success` iff the Run ends `completed`, `error` iff it ends
\* `failed`.  (Stated for a run id enqueued once, of an existing Run, and for an
\* execution whose catch-block update was acknowledged.)
C28_OneTerminalEvent ==
    \A t \in Tasks :
        LET r == tasks[t].run
        IN (Ended(t) /\ r \in ExistingRuns /\ EnqueuedOnce(r) /\ t \notin rejected) =>
             /\ Cardinality(TerminalEvents(r)) = 1
             /\ HasEvent(r, "success") <=> runs[r].status = "completed"
             /\ HasEvent(r, "error") <=> runs[r].status = "failed"

\* The positions of the calls of op among the calls task t has invoked.
CallsAt(t, op) == {i \in 1..Len(tasks[t].calls) : tasks[t].calls[i].op = op}

\* C29: trackCost is invoked at most once per task execution, only after the
\* executor has returned success, only with a cost estimate that parses to a
\* value greater than 0, and the cost governor receives it for the
\* organization that owns the task's Run.
C29_TrackCostGuarded ==
    /\ \A t \in Tasks :
          /\ Cardinality(CallsAt(t, "trackCost")) <= 1
          /\ \A i \in CallsAt(t, "trackCost") :
                /\ \E j \in CallsAt(t, "callWithRetry") : j < i
                /\ tasks[t].resp \in ExecOutcomes
                /\ tasks[t].resp.success
                /\ tasks[t].resp.cost # Undefined
                /\ tasks[t].calls[i].arg = tasks[t].resp.cost
                /\ ParseFloat(tasks[t].calls[i].arg) > 0
    /\ \A i \in 1..Len(costTracked) :
          LET t == costTracked[i].task
          IN /\ t \in Tasks
             /\ CallsAt(t, "trackCost") # {}
             /\ costTracked[i].orgId = OrgOf(tasks[t].run)
             /\ \A k \in 1..Len(costTracked) : costTracked[k].task = t => k = i

\* The cost of a Run whose organization has no record was tracked for that
\* organization, and the task ended without a Usage record; another task ended
\* with a cost estimate of zero and without a call of trackCost.
C29_Witness ==
    /\ \E t \in Tasks :
          /\ Ended(t)
          /\ tasks[t].run = RunWithoutOrg
          /\ \E i \in 1..Len(costTracked) :
                costTracked[i].task = t /\ costTracked[i].orgId = OrgOf(RunWithoutOrg)
          /\ RowsOfTask(usageRecords, t) = {}
    /\ \E t \in Tasks :
          /\ Ended(t)
          /\ tasks[t].resp.success
          /\ ParseFloat(CostEstimate(tasks[t].resp)) = 0
          /\ tasks[t].err = Undefined
          /\ CallsAt(t, "trackCost") = {}

\* C30: accounting is consistent.  Whatever the cost governor, the Usage table
\* and the Audit table hold for a task carries the cost estimate derived from
\* that task's outcome ("0" when the outcome has none), the Usage record names
\* the outcome's usedProvider as provider and the Run's requested provider as
\* originalProvider, and the Usage and Audit records carry the outcome's
\* attempts; and for a run id enqueued once whose task ended without an
\* exception, the Run holds that same cost estimate and, in its output, the
\* outcome's usedProvider and attempts, next to one Audit record.
C30_AccountingConsistent ==
    \A t \in Tasks :
        LET resp == tasks[t].resp
            cost == IF resp.cost = Undefined THEN "0" ELSE resp.cost
            r == tasks[t].run
        IN /\ \A i \in RowsOfTask(costTracked, t) : costTracked[i].cost = cost
           /\ \A i \in RowsOfTask(usageRecords, t) :
                 /\ usageRecords[i].cost = cost
                 /\ usageRecords[i].provider = resp.usedProvider
                 /\ usageRecords[i].originalProvider = PrimaryProvider
                 /\ usageRecords[i].attempts = resp.attempts
           /\ \A i \in RowsOfTask(auditLogs, t) :
                 /\ auditLogs[i].cost = cost
                 /\ auditLogs[i].usedProvider = resp.usedProvider
                 /\ auditLogs[i].provider = PrimaryProvider
                 /\ auditLogs[i].attempts = resp.attempts
           /\ (/\ Ended(t)
               /\ tasks[t].err = Undefined
               /\ r \in ExistingRuns
               /\ EnqueuedOnce(r))
              => /\ resp \in ExecOutcomes /\ resp.success
                 /\ runs[r].status = "completed"
                 /\ runs[r].costEstimate = cost
                 /\ runs[r].output.usage = resp.cost
                 /\ runs[r].output.usedProvider = resp.usedProvider
                 /\ runs[r].output.attempts = resp.attempts
                 /\ Cardinality(RowsOfTask(auditLogs, t)) = 1

\* A run served by the fallback provider after four attempts has ended with
\* its cost in the Run, at the cost governor, in its Usage record and in its
\* Audit record.
C30_Witness ==
    \E t \in Tasks :
        /\ Ended(t)
        /\ tasks[t].err = Undefined
        /\ EnqueuedOnce(tasks[t].run)
        /\ tasks[t].resp.usedProvider = FallbackProvider
        /\ tasks[t].resp.attempts = 4
        /\ runs[tasks[t].run].costEstimate = "0.015000"
        /\ \E i \in RowsOfTask(costTracked, t) : costTracked[i].cost = "0.015000"
        /\ \E i \in RowsOfTask(usageRecords, t) : usageRecords[i].cost = "0.015000"
        /\ \E i \in RowsOfTask(auditLogs, t) : auditLogs[i].cost = "0.015000"

\* C31: slot accounting.  activeCount is the number of tasks admitted and not
\* yet through the finally block, it is never negative, processing is set
\* exactly when activeCount > 0, and every admitted task has given its slot
\* back exactly once when it has ended, whatever its outcome: activeCount is
\* the number of admissions less the number of ended tasks, so it is 0, with
\* processing unset, whenever no task is executing.
C31_SlotAccounting ==
    LET executing == {t \in Tasks : Executing(t)}
        ended == {t \in Tasks : Ended(t)}
    IN /\ activeCount = Cardinality(executing)
       /\ activeCount >= 0
       /\ processing <=> activeCount > 0
       /\ activeCount = Len(admitted) - Cardinality(ended)
       /\ executing = {} => (activeCount = 0 /\ ~processing)

\* Slots were given back on every outcome: one task ended completed, one ended
\* with its failed update acknowledged and one with that update thrown; no
\* task is executing and no slot is taken.
C31_Witness ==
    /\ Len(tasks) = 3
    /\ \A t \in Tasks : Ended(t)
    /\ \E t \in Tasks : tasks[t].err = Undefined
    /\ \E t \in Tasks : tasks[t].err # Undefined /\ t \notin rejected
    /\ rejected # {}
    /\ activeCount = 0
    /\ ~processing

\* C32: no lost wake-up.  Whenever the backlog is not empty, a task is
\* executing or a call of processQueue is scheduled that will run: a
\* re-admission timer is pending in a process that is alive.
C32_NoLostWakeup ==
    queue # <<>> => (activeCount > 0 \/ (timers > 0 /\ ~crashed))

\* C33: scbeApiMiddleware produces exactly one outcome per request.  Before
\* the middleware has run to its end nothing was sent and next() was not
\* called; at its end either a response was sent and next() was not called, or
\* next() was called once and no response was sent.  On DENY the response is
\* 403, on QUARANTINE 202, on ALLOW the result is attached to req.scbe and
\* next() is called; in the catch block the response is 403 when the local
\* governance tier is below minTier, and otherwise the local result is
\* attached and next() is called.
C33_OneOutcomePerRequest ==
    LET mw == middleware
        responded(code) == mw.status = code /\ mw.nextCalls = 0 /\ mw.scbe = Undefined
        proceeded(scbe) == mw.status = 0 /\ mw.nextCalls = 1 /\ mw.scbe = scbe
    IN /\ mw.pc # "done" => (mw.status = 0 /\ mw.nextCalls = 0 /\ mw.scbe = Undefined)
       /\ mw.pc = "done" =>
             /\ \/ mw.status # 0 /\ mw.nextCalls = 0
                \/ mw.status = 0 /\ mw.nextCalls = 1
             /\ (~mw.error /\ mw.result.decision = "DENY") => responded(403)
             /\ (~mw.error /\ mw.result.decision = "QUARANTINE") => responded(202)
             /\ (~mw.error /\ mw.result.decision = "ALLOW") => proceeded("result")
             /\ mw.error =>
                   IF TierOf(DistanceOf(Action(mw.method, mw.path))) < mw.minTier
                   THEN responded(403)
                   ELSE proceeded("localResult")
             /\ mw.traps <= 1
             /\ mw.traps = 1 => (mw.result.decision = "DENY" /\ mw.result.trap_activated)

\* The catch block was entered and the request was refused there: the local
\* tier of a DELETE is below the minTier of 4.
C33_Witness ==
    /\ middleware.pc = "done"
    /\ middleware.error
    /\ middleware.method = "DELETE"
    /\ middleware.minTier = 4
    /\ middleware.status = 403
    /\ middleware.nextCalls = 0

\* The ways the remote call fails.
ApiFailures == {"fetch rejected", "not ok", "body not JSON"}

\* C34: evaluateWithSCBEApi never throws: it always hands a response to the
\* middleware.  When the remote call fails (fetch rejects, the status is not
\* OK, the body is not JSON), and only then, the response is the local one,
\* and its decision is ALLOW for every request; so after an API failure the
\* middleware does not enter its catch block: it attaches the response and
\* calls next(), whatever minTier is.
C34_ApiFailureFallsBackToAllow ==
    LET mw == middleware
    IN /\ mw.pc \in {"evaluated", "done"} => mw.result.json # "none"
       /\ mw.api \in ApiFailures =>
             /\ mw.result.reason = "Local evaluation"
             /\ mw.result.decision = "ALLOW"
             /\ ~mw.error
             /\ mw.pc = "done" =>
                   (mw.status = 0 /\ mw.nextCalls = 1 /\ mw.scbe = "result")
       /\ mw.result.reason = "Local evaluation" => mw.api \in ApiFailures
       /\ mw.error => mw.api = "ok"

\* The API answered with a status that is not OK; the local response let the
\* request through although minTier is 4.
C34_Witness ==
    /\ middleware.pc = "done"
    /\ middleware.api = "not ok"
    /\ middleware.minTier = 4
    /\ middleware.result.decision = "ALLOW"
    /\ middleware.nextCalls = 1
    /\ ~middleware.error

====
